---- MODULE Spec2Model ----
(***************************************************************************)
(* Model of script.py: a Flask front-end over a search provider, with a    *)
(* 60 second response cache (_cache), a daily request counter              *)
(* (_request_counter), the search client google_search, the place lookup   *)
(* osm_search and the two request handlers home and images.                *)
(*                                                                         *)
(* Each worker thread of the server runs one call at a time; the steps of  *)
(* google_search that touch the shared dictionaries are separate actions,  *)
(* so that Spec runs the calls one after the other on the main thread and  *)
(* SpecThreads interleaves two threads the way a threaded server does.     *)
(***************************************************************************)
EXTENDS Integers, Sequences, FiniteSets, TLC

VARIABLES
    cfg,              \* API_KEY, CX, MAIL as loaded at import (TRUE = set)
    now,              \* time.time(), in seconds
    today,            \* time.strftime("%Y-%m-%d"), as a day number
    cache,            \* _cache: dict CacheKey -> (ts, payload)
    request_counter,  \* _request_counter: {"date": ..., "count": ...}
    pc,               \* per thread: the statement it is at
    L,                \* per thread: the locals of the running call
    out,              \* per thread: what the finished call produced
    net,              \* upstream search requests issued so far (observer)
    started,          \* number of calls started so far (observer)
    osm_in            \* the provider response of a plain osm_search call

vars ==
    <<cfg, now, today, cache, request_counter, pc, L, out, net, started, osm_in>>

----------------------------------------------------------------------------
\* Bounds of the model.

MaxNow == 61
MaxDay == 1
MaxCalls == 2

Threads == {1, 2}
MainThread == CHOOSE t \in Threads : \A u \in Threads : t <= u
TickSteps == {60, 61}

----------------------------------------------------------------------------
\* Program constants.

CACHE_TTL_SEC == 60
MaxStart == 91
MaxNum == 10
HandlerNum == 10
BodyExcerptLen == 200
\* float(importance) < 0.3, importance kept in tenths
ImportanceThresholdTenths == 3

allowed_classes ==
    {"place", "boundary", "building", "amenity", "tourism", "highway",
     "shop", "leisure", "natural", "historic"}

----------------------------------------------------------------------------
\* Python values.

Max2(a, b) == IF a >= b THEN a ELSE b
Min2(a, b) == IF a <= b THEN a ELSE b

\* A JSON payload of the search provider: the top-level keys it carries, what
\* its first item links to, and the startIndex of queries.nextPage[0] and
\* queries.previousPage[0] (0 = not given).  py = "None" is Python's None.
PyNone == [py |-> "None", keys |-> {}, top |-> "none", next |-> 0, prev |-> 0]
EmptyObject == [py |-> "dict", keys |-> {}, top |-> "none", next |-> 0, prev |-> 0]
WikiPage ==
    [py |-> "dict", keys |-> {"items", "queries", "searchInformation"},
     top |-> "wiki", next |-> 11, prev |-> 0]
Payloads == {EmptyObject, WikiPage}

\* bool(x) of a payload or None: a dict is true when it has a key.
Truthy(v) == v.py = "dict" /\ v.keys # {}

\* Python str and int values; a str is a sequence of pieces.
PyStr(s) == [t |-> "str", s |-> s, n |-> 0]
PyInt(n) == [t |-> "int", s |-> <<>>, n |-> n]
NoneVal == [t |-> "None", s |-> <<>>, n |-> 0]
TypeErrorVal == [t |-> "TypeError", s |-> <<>>, n |-> 0]

\* a + b: str + str concatenates, str + int raises TypeError.
PyAdd(a, b) ==
    IF a.t = "str" /\ b.t = "str" THEN PyStr(a.s \o b.s) ELSE TypeErrorVal

\* text[:k]
Slice(s, k) == SubSeq(s, 1, Min2(Len(s), k))

Body(n) == [i \in 1..n |-> "x"]

----------------------------------------------------------------------------
\* _cache, a dict: a function whose domain is the set of stored keys.

NoItem == [present |-> FALSE, ts |-> 0, payload |-> PyNone]
Item(ts, payload) == [present |-> TRUE, ts |-> ts, payload |-> payload]
EmptyDict == [k \in {} |-> NoItem]

\* d.get(k)
DictGet(d, k) == IF k \in DOMAIN d THEN d[k] ELSE NoItem
\* d[k] = v
DictSet(d, k, v) == [x \in DOMAIN d \cup {k} |-> IF x = k THEN v ELSE d[x]]
\* d.pop(k, None)
DictPop(d, k) == [x \in DOMAIN d \ {k} |-> d[x]]

\* _cache_get: time.time() - ts > CACHE_TTL_SEC
Expired_ge(t, ts) == t - ts >= CACHE_TTL_SEC
Expired(t, ts) == t - ts > CACHE_TTL_SEC

\* _cache_set: the stored tuple (time.time(), value)
CacheSet(d, k, t, value) == DictSet(d, k, Item(t, value))

----------------------------------------------------------------------------
\* google_search, the thread-local part.

\* if not API_KEY or not CX
ConfigMissing_keyonly(c) == ~c.API_KEY
ConfigMissing(c) == ~c.API_KEY \/ ~c.CX

ConfigErrorText == <<"Variables d'environnement manquantes: GOOGLE_API_KEY et GOOGLE_CSE_ID">>

\* start_index = max(1, min(start_index, 91))
ClampStart_nofloor(s) == Min2(s, MaxStart)
ClampStart(s) == Max2(1, Min2(s, MaxStart))
\* num = max(1, min(num, 10))
ClampNum(n) == Max2(1, Min2(n, MaxNum))

\* bool(search_type) is false for None ("None" stands for None) and for ""
FalsyStr(st) == st = "None" \/ st = ""

\* search_type or "web"
KindOrWeb(st) == IF FalsyStr(st) THEN "web" ELSE st

\* key = (query + f"|{num}", start_index, search_type or "web")
MakeKey(q, num, start_index, st) ==
    [qn |-> <<q, "|", num>>, start |-> start_index, kind |-> KindOrWeb(st)]
NoKey == [qn |-> <<"", "|", 0>>, start |-> 0, kind |-> "web"]

\* params of the upstream request (key and cx are fixed for the run);
\* if search_type: params["searchType"] = search_type
MakeParams(q, num, start_index, st) ==
    [q |-> q, num |-> num, start |-> start_index,
     searchType |-> IF FalsyStr(st) THEN "absent" ELSE st]
NoParams == [q |-> "", num |-> 0, start |-> 0, searchType |-> "absent"]

\* A response of the search provider: whether the connection worked, the
\* status, whether the body parses as JSON, the parsed payload, the body text.
\* The statuses are one of each kind raise_for_status tells apart: a 2xx, a
\* 3xx that is not an error to it (a redirect without Location is returned
\* as it is), and a 4xx.
SearchResponses ==
    {[conn |-> TRUE, status |-> 200, parses |-> TRUE, payload |-> p, text |-> <<>>] :
        p \in Payloads}
    \cup {[conn |-> TRUE, status |-> 200, parses |-> FALSE, payload |-> PyNone, text |-> Body(2)],
          [conn |-> TRUE, status |-> 301, parses |-> TRUE, payload |-> WikiPage, text |-> <<>>],
          [conn |-> TRUE, status |-> 403, parses |-> TRUE, payload |-> PyNone, text |-> Body(201)],
          [conn |-> FALSE, status |-> 0, parses |-> FALSE, payload |-> PyNone, text |-> <<>>]}

\* observer: the status is a success status (200-299), whatever line 78 does
Is2xx(status) == status >= 200 /\ status < 300

\* requests.get(...); r.raise_for_status(); r.json(): the exception raised
SearchRaises(r) ==
    IF ~r.conn THEN "ConnectionError"
    ELSE IF r.status >= 400 /\ r.status < 600 THEN "HTTPError"
    ELSE IF ~r.parses THEN "JSONDecodeError"
    ELSE "none"

NoExc == [type |-> "none", status |-> 0, text |-> <<>>]
Exc(type, status, text) == [type |-> type, status |-> status, text |-> text]

\* if _request_counter["date"] != today
DateChanged(c, day) == c.date # day
\* _request_counter["date"] = today
CounterSetDate(c, day) == [c EXCEPT !.date = day]
\* _request_counter["count"] = 0
CounterResetCount_keep(c) == c
CounterResetCount(c) == [c EXCEPT !.count = 0]

----------------------------------------------------------------------------
\* osm_search.

\* A response of the geocoding provider: data is the parsed JSON list; a
\* candidate carries its class and its importance, which is a number (kept in
\* tenths), missing, or null.
Candidate(class, imp, tenths) == [class |-> class, imp |-> imp, tenths |-> tenths]
OsmOk(data) == [conn |-> TRUE, status |-> 200, parses |-> TRUE, data |-> data]
Importances == {<<"num", 1>>, <<"num", 3>>, <<"num", 5>>, <<"num", 9>>,
                <<"missing", 0>>, <<"null", 0>>}
OsmResponses ==
    {OsmOk(<<>>),
     [conn |-> TRUE, status |-> 200, parses |-> FALSE, data |-> <<>>],
     [conn |-> TRUE, status |-> 503, parses |-> TRUE, data |-> <<>>],
     [conn |-> FALSE, status |-> 0, parses |-> FALSE, data |-> <<>>]}
    \cup {OsmOk(<<Candidate(c, i[1], i[2])>>) :
            c \in {"shop", "railway", "historic"}, i \in Importances}

NoOsmResponse == [conn |-> FALSE, status |-> -1, parses |-> FALSE, data |-> <<>>]

\* float(result.get("importance", 0)) < 0.3
ImportanceTooLow(c) ==
    (IF c.imp = "missing" THEN 0 ELSE c.tenths) < ImportanceThresholdTenths

\* osm_search(query) with MAIL and the provider's response: whether it
\* raised, and whether it returned data[0] rather than None.
\* "..."+MAIL+")" is evaluated before the try and raises TypeError on None.
OsmResult(raised, found) == [called |-> TRUE, raised |-> raised, found |-> found]
NoOsmCall == [called |-> FALSE, raised |-> FALSE, found |-> FALSE]
osm_search(mail, r) ==
    IF ~mail THEN OsmResult(TRUE, FALSE)
    ELSE IF ~r.conn \/ (r.status >= 400 /\ r.status < 600) \/ ~r.parses
        THEN OsmResult(FALSE, FALSE)
    ELSE IF r.data = <<>> THEN OsmResult(FALSE, FALSE)
    ELSE IF r.data[1].class \notin allowed_classes THEN OsmResult(FALSE, FALSE)
    ELSE IF r.data[1].imp = "null" THEN OsmResult(FALSE, FALSE)
    ELSE IF ImportanceTooLow(r.data[1]) THEN OsmResult(FALSE, FALSE)
    ELSE OsmResult(FALSE, TRUE)

----------------------------------------------------------------------------
\* home and images, the thread-local part.

\* int(start), 1 on ValueError; the raw argument is digits or not
StartArgs == {[digits |-> FALSE, n |-> 0], [digits |-> TRUE, n |-> 1]}
ParseStart(a) == IF a.digits THEN a.n ELSE 1

\* items = data.get("items") or []: the link kinds of the result list
Results(data) ==
    IF "items" \notin data.keys THEN <<>>
    ELSE IF data.top = "wiki" THEN <<"wiki", "other">>
    ELSE IF data.top = "other" THEN <<"other">>
    ELSE <<>>

\* info = data.get("searchInformation") or {}
Info(data) == IF "searchInformation" \in data.keys THEN "given" ELSE "empty"

\* if results and "wikipedia.org" in results[0]["link"]
TopIsWiki(results) == results # <<>> /\ results[1] = "wiki"

\* requests.get(wiki_api).json(): the summary fetch
WikiResponses == {"summary", "no_extract", "transport_error", "bad_json"}
WikiRaises(w) == w \in {"transport_error", "bad_json"}

\* queries.get("nextPage") / queries.get("previousPage"), 0 for None
NextStart(data) == IF "queries" \in data.keys THEN data.next ELSE 0
PrevStart(data) == IF "queries" \in data.keys THEN data.prev ELSE 0

\* "HTTP "+e.response.status_code+": "+e.response.text[:200]+"..."
\* status_code is an int
HttpErrorString(status, text) ==
    PyAdd(PyAdd(PyAdd(PyAdd(PyStr(<<"HTTP ">>), PyInt(status)),
                      PyStr(<<": ">>)),
                PyStr(Slice(text, BodyExcerptLen))),
          PyStr(<<"...">>))

\* str(e) of the exceptions that are not HTTPError
ExcText(e) ==
    IF e.type = "RuntimeError" THEN PyStr(ConfigErrorText) ELSE PyStr(<<e.type>>)

\* What a finished call produced: a rendered page (state "rendered"), a
\* returned payload of a plain google_search call ("returned"), or an
\* exception that left the call ("raised").
NoOut ==
    [state |-> "none", results |-> <<>>, info |-> "none", error |-> NoneVal,
     wiki_box |-> FALSE, osm_box |-> FALSE, next_start |-> 0, prev_start |-> 0,
     count |-> 0, value |-> PyNone, exc |-> "none",
     wiki |-> "none", osm |-> NoOsmCall]

NoLocals ==
    [handler |-> "none", q |-> "", start_arg |-> 0, num_arg |-> 0,
     start_index |-> 0, num |-> 0, search_type |-> "None",
     key |-> NoKey, item |-> NoItem, fresh |-> FALSE, cached |-> PyNone,
     params |-> NoParams, data |-> PyNone, exc |-> NoExc,
     today |-> 0, reset |-> FALSE, cnt |-> 0, ts |-> 0,
     hit |-> FALSE]

----------------------------------------------------------------------------
\* Inputs.

\* q after .strip(); "" is the empty query
Queries == {"", "paris"}
\* arguments (start_index, num, search_type) of a plain google_search call
SearchArgs == {<<0, 50, "None">>, <<999, 0, "">>}

----------------------------------------------------------------------------
\* Initial state: the module has just been imported.

Init ==
    /\ cfg \in [API_KEY : BOOLEAN, CX : BOOLEAN, MAIL : BOOLEAN]
    /\ now = 0
    /\ today = 0
    /\ cache = EmptyDict
    /\ request_counter = [date |-> 0, count |-> 0]
    /\ pc = [t \in Threads |-> "idle"]
    /\ L = [t \in Threads |-> NoLocals]
    /\ out = [t \in Threads |-> NoOut]
    /\ net = <<>>
    /\ started = 0
    /\ osm_in = NoOsmResponse

----------------------------------------------------------------------------
\* The clock.

Tick ==
    /\ \E d \in TickSteps : now + d <= MaxNow /\ now' = now + d
    /\ UNCHANGED <<osm_in, cfg, today, cache, request_counter, pc, L, out, net, started>>

DayRollover ==
    /\ today < MaxDay
    /\ today' = today + 1
    /\ UNCHANGED <<osm_in, cfg, now, cache, request_counter, pc, L, out, net, started>>

----------------------------------------------------------------------------
\* google_search, lines 53-62: the configuration check, the clamps, the key.

Enter(t, handler, q, start_arg, num_arg, st) ==
    LET base == [NoLocals EXCEPT !.handler = handler, !.q = q,
                                 !.start_arg = start_arg, !.num_arg = num_arg,
                                 !.search_type = st]
    IN  IF ConfigMissing(cfg)
        THEN /\ L' = [L EXCEPT ![t] = [base EXCEPT !.exc = Exc("RuntimeError", 0, <<>>)]]
             /\ pc' = [pc EXCEPT ![t] = "except"]
        ELSE LET si == ClampStart(start_arg)
                 n == ClampNum(num_arg)
             IN  /\ L' = [L EXCEPT ![t] = [base EXCEPT !.start_index = si, !.num = n,
                                                      !.key = MakeKey(q, n, si, st)]]
                 /\ pc' = [pc EXCEPT ![t] = "cache_get"]

\* home, lines 136-153: parse the arguments; with a query, call google_search
HomeBegin(t) ==
    /\ pc[t] = "idle"
    /\ started < MaxCalls
    /\ started' = started + 1
    /\ \E q \in Queries, a \in StartArgs :
        IF q = ""
        THEN /\ L' = [L EXCEPT ![t] = [NoLocals EXCEPT !.handler = "home",
                                                       !.start_arg = ParseStart(a)]]
             /\ pc' = [pc EXCEPT ![t] = "render"]
        ELSE Enter(t, "home", q, ParseStart(a), HandlerNum, "None")
    /\ UNCHANGED <<osm_in, cfg, now, today, cache, request_counter, out, net>>

\* images, lines 250-264
ImagesBegin(t) ==
    /\ pc[t] = "idle"
    /\ started < MaxCalls
    /\ started' = started + 1
    /\ \E q \in Queries, a \in StartArgs :
        IF q = ""
        THEN /\ L' = [L EXCEPT ![t] = [NoLocals EXCEPT !.handler = "images",
                                                       !.start_arg = ParseStart(a)]]
             /\ pc' = [pc EXCEPT ![t] = "render"]
        ELSE Enter(t, "images", q, ParseStart(a), HandlerNum, "image")
    /\ UNCHANGED <<osm_in, cfg, now, today, cache, request_counter, out, net>>

\* a plain call google_search(query, start_index, num)
SearchBegin(t) ==
    /\ pc[t] = "idle"
    /\ started < MaxCalls
    /\ started' = started + 1
    /\ \E a \in SearchArgs : Enter(t, "search", "paris", a[1], a[2], a[3])
    /\ UNCHANGED <<osm_in, cfg, now, today, cache, request_counter, out, net>>

----------------------------------------------------------------------------
\* google_search, lines 63-65, and _cache_get.

\* line 35: item = _cache.get(key); if not item: return None
CacheGet(t) ==
    /\ pc[t] = "cache_get"
    /\ LET item == DictGet(cache, L[t].key)
       IN  /\ L' = [L EXCEPT ![t].item = item, ![t].cached = PyNone]
           /\ pc' = [pc EXCEPT ![t] = IF item.present THEN "cache_age" ELSE "request"]
    /\ UNCHANGED <<osm_in, cfg, now, today, cache, request_counter, out, net, started>>

\* line 39: the age test on the item read, with the clock of this moment;
\* line 42: return payload; then, in google_search: if cached: return cached
CacheAge(t) ==
    /\ pc[t] = "cache_age"
    /\ LET item == L[t].item
           loc == [L[t] EXCEPT !.fresh = now - item.ts <= CACHE_TTL_SEC]
       IN  IF Expired(now, item.ts)
           THEN /\ L' = [L EXCEPT ![t] = loc]
                /\ pc' = [pc EXCEPT ![t] = "cache_pop"]
           ELSE IF Truthy(item.payload)
           THEN /\ L' = [L EXCEPT ![t] = [loc EXCEPT !.cached = item.payload,
                                                    !.data = item.payload,
                                                    !.hit = TRUE]]
                /\ pc' = [pc EXCEPT ![t] = "compose"]
           ELSE /\ L' = [L EXCEPT ![t] = [loc EXCEPT !.cached = item.payload]]
                /\ pc' = [pc EXCEPT ![t] = "request"]
    /\ UNCHANGED <<osm_in, cfg, now, today, cache, request_counter, out, net, started>>

\* line 40: _cache.pop(key, None), whatever is stored under the key; return None
CachePop(t) ==
    /\ pc[t] = "cache_pop"
    /\ cache' = DictPop(cache, L[t].key)
    /\ L' = [L EXCEPT ![t].cached = PyNone]
    /\ pc' = [pc EXCEPT ![t] = "request"]
    /\ UNCHANGED <<osm_in, cfg, now, today, request_counter, out, net, started>>

----------------------------------------------------------------------------
\* google_search, lines 67-79: the upstream request.

Request(t) ==
    /\ pc[t] = "request"
    /\ \E r \in SearchResponses :
        LET raised == SearchRaises(r)
            params == MakeParams(L[t].q, L[t].num, L[t].start_index,
                                 L[t].search_type)
            held == DictGet(cache, L[t].key)
            sent == [day |-> today,
                     ok |-> r.conn /\ Is2xx(r.status) /\ r.parses,
                     dup |-> held.present /\ now - held.ts <= CACHE_TTL_SEC]
        IN  /\ net' = Append(net, sent)
            /\ IF raised # "none"
               THEN /\ L' = [L EXCEPT ![t].params = params,
                                       ![t].exc = Exc(raised, r.status, r.text)]
                    /\ pc' = [pc EXCEPT ![t] = "except"]
               ELSE /\ L' = [L EXCEPT ![t].params = params,
                                       ![t].data = r.payload]
                    /\ pc' = [pc EXCEPT ![t] = "record_date"]
    /\ UNCHANGED <<osm_in, cfg, now, today, cache, request_counter, out, started>>

----------------------------------------------------------------------------
\* google_search, lines 82-88: the counter and the cache.

\* line 82: today = time.strftime("%Y-%m-%d")
RecordDate(t) ==
    /\ pc[t] = "record_date"
    /\ L' = [L EXCEPT ![t].today = today]
    /\ pc' = [pc EXCEPT ![t] = "date_test"]
    /\ UNCHANGED <<osm_in, cfg, now, today, cache, request_counter, out, net, started>>

\* line 83: if _request_counter["date"] != today, with the local today
DateTest(t) ==
    /\ pc[t] = "date_test"
    /\ L' = [L EXCEPT ![t].reset = DateChanged(request_counter, L[t].today)]
    /\ pc' = [pc EXCEPT ![t] = IF DateChanged(request_counter, L[t].today)
                               THEN "reset_date" ELSE "record_load"]
    /\ UNCHANGED <<osm_in, cfg, now, today, cache, request_counter, out, net, started>>

\* line 84: _request_counter["date"] = today
ResetDate(t) ==
    /\ pc[t] = "reset_date"
    /\ request_counter' = CounterSetDate(request_counter, L[t].today)
    /\ pc' = [pc EXCEPT ![t] = "reset_count"]
    /\ UNCHANGED <<osm_in, cfg, now, today, cache, L, out, net, started>>

\* line 85: _request_counter["count"] = 0
ResetCount(t) ==
    /\ pc[t] = "reset_count"
    /\ request_counter' = CounterResetCount(request_counter)
    /\ pc' = [pc EXCEPT ![t] = "record_load"]
    /\ UNCHANGED <<osm_in, cfg, now, today, cache, L, out, net, started>>

\* line 86: the read of count in count += 1
RecordLoad(t) ==
    /\ pc[t] = "record_load"
    /\ L' = [L EXCEPT ![t].cnt = request_counter.count]
    /\ pc' = [pc EXCEPT ![t] = "record_store"]
    /\ UNCHANGED <<osm_in, cfg, now, today, cache, request_counter, out, net, started>>

\* line 86: the write of count in count += 1
RecordStore(t) ==
    /\ pc[t] = "record_store"
    /\ request_counter' = [request_counter EXCEPT !.count = L[t].cnt + 1]
    /\ pc' = [pc EXCEPT ![t] = "cache_time"]
    /\ UNCHANGED <<osm_in, cfg, now, today, cache, L, out, net, started>>

\* line 46, _cache_set(key, data): the call time.time()
CacheTime(t) ==
    /\ pc[t] = "cache_time"
    /\ L' = [L EXCEPT ![t].ts = now]
    /\ pc' = [pc EXCEPT ![t] = "cache_set"]
    /\ UNCHANGED <<osm_in, cfg, now, today, cache, request_counter, out, net, started>>

\* line 46: _cache[key] = (the time read, value); return data
CacheStore(t) ==
    /\ pc[t] = "cache_set"
    /\ cache' = CacheSet(cache, L[t].key, L[t].ts, L[t].data)
    /\ pc' = [pc EXCEPT ![t] = "compose"]
    /\ UNCHANGED <<osm_in, cfg, now, today, request_counter, L, out, net, started>>

----------------------------------------------------------------------------
\* home, lines 154-245.

Rendered(results, info, error, wiki_box, osm_box, next_start, prev_start) ==
    [NoOut EXCEPT !.state = "rendered", !.results = results, !.info = info,
                  !.error = error, !.wiki_box = wiki_box, !.osm_box = osm_box,
                  !.next_start = next_start, !.prev_start = prev_start,
                  !.count = request_counter.count]

\* the body of the try after google_search returned, and its except clauses
HomeCompose(t) ==
    /\ pc[t] = "compose"
    /\ L[t].handler = "home"
    /\ LET data == L[t].data
           results == Results(data)
           info == Info(data)
       IN  \E w \in WikiResponses, r \in OsmResponses :
            IF TopIsWiki(results) /\ WikiRaises(w)
            THEN \* requests.get(wiki_api).json() raised: except Exception
                 out' = [out EXCEPT ![t] =
                            [Rendered(results, info, PyStr(<<w>>), FALSE, FALSE, 0, 0)
                                EXCEPT !.wiki = "failed"]]
            ELSE LET place == osm_search(cfg.MAIL, r)
                 IN  out' = [out EXCEPT ![t] =
                            [Rendered(results, info, NoneVal, TopIsWiki(results),
                                      ~place.raised /\ place.found,
                                      NextStart(data), PrevStart(data))
                                EXCEPT !.wiki = IF TopIsWiki(results) THEN "fetched"
                                                ELSE "none",
                                       !.osm = place]]
    /\ pc' = [pc EXCEPT ![t] = "done"]
    /\ UNCHANGED <<osm_in, cfg, now, today, cache, request_counter, L, net, started>>

\* images, lines 265-296
ImagesCompose(t) ==
    /\ pc[t] = "compose"
    /\ L[t].handler = "images"
    /\ LET data == L[t].data
       IN  out' = [out EXCEPT ![t] =
                      Rendered(Results(data), "none", NoneVal, FALSE, FALSE,
                               NextStart(data), PrevStart(data))]
    /\ pc' = [pc EXCEPT ![t] = "done"]
    /\ UNCHANGED <<osm_in, cfg, now, today, cache, request_counter, L, net, started>>

\* home lines 228-231 and images lines 282-285: google_search raised
HandlerExcept(t) ==
    /\ pc[t] = "except"
    /\ L[t].handler \in {"home", "images"}
    /\ LET e == L[t].exc
           msg == IF e.type = "HTTPError" THEN HttpErrorString(e.status, e.text)
                  ELSE ExcText(e)
       IN  IF msg.t = "TypeError"
           THEN \* raised inside the except clause: leaves the handler
                out' = [out EXCEPT ![t] = [NoOut EXCEPT !.state = "raised",
                                                        !.exc = "TypeError"]]
           ELSE out' = [out EXCEPT ![t] =
                           Rendered(<<>>, "none", msg, FALSE, FALSE, 0, 0)]
    /\ pc' = [pc EXCEPT ![t] = "done"]
    /\ UNCHANGED <<osm_in, cfg, now, today, cache, request_counter, L, net, started>>

\* home / images with an empty query: render_template only
RenderEmpty(t) ==
    /\ pc[t] = "render"
    /\ out' = [out EXCEPT ![t] = Rendered(<<>>, "none", NoneVal, FALSE, FALSE, 0, 0)]
    /\ pc' = [pc EXCEPT ![t] = "done"]
    /\ UNCHANGED <<osm_in, cfg, now, today, cache, request_counter, L, net, started>>

\* a plain google_search call returns its payload
SearchReturn(t) ==
    /\ pc[t] = "compose"
    /\ L[t].handler = "search"
    /\ out' = [out EXCEPT ![t] = [NoOut EXCEPT !.state = "returned",
                                               !.value = L[t].data]]
    /\ pc' = [pc EXCEPT ![t] = "done"]
    /\ UNCHANGED <<osm_in, cfg, now, today, cache, request_counter, L, net, started>>

\* a plain google_search call raises
SearchRaise(t) ==
    /\ pc[t] = "except"
    /\ L[t].handler = "search"
    /\ out' = [out EXCEPT ![t] = [NoOut EXCEPT !.state = "raised",
                                               !.exc = L[t].exc.type]]
    /\ pc' = [pc EXCEPT ![t] = "done"]
    /\ UNCHANGED <<osm_in, cfg, now, today, cache, request_counter, L, net, started>>

\* the thread is free for the next call
Finish(t) ==
    /\ pc[t] = "done"
    /\ pc' = [pc EXCEPT ![t] = "idle"]
    /\ L' = [L EXCEPT ![t] = NoLocals]
    /\ out' = [out EXCEPT ![t] = NoOut]
    /\ UNCHANGED <<osm_in, cfg, now, today, cache, request_counter, net, started>>

----------------------------------------------------------------------------
\* A plain call osm_search(query), lines 90-132, on the provider's response.

OsmLookup(t) ==
    /\ pc[t] = "idle"
    /\ \E r \in OsmResponses :
        LET place == osm_search(cfg.MAIL, r)
        IN  /\ osm_in' = r
            /\ out' = [out EXCEPT ![t] =
                   [NoOut EXCEPT !.state = IF place.raised THEN "raised" ELSE "returned",
                                 !.exc = IF place.raised THEN "TypeError" ELSE "none",
                                 !.osm = place]]
    /\ L' = [L EXCEPT ![t] = [NoLocals EXCEPT !.handler = "osm_search", !.q = "paris"]]
    /\ pc' = [pc EXCEPT ![t] = "done"]
    /\ UNCHANGED <<cfg, now, today, cache, request_counter, net, started>>

OsmFinish(t) ==
    /\ pc[t] = "done"
    /\ pc' = [pc EXCEPT ![t] = "idle"]
    /\ L' = [L EXCEPT ![t] = NoLocals]
    /\ out' = [out EXCEPT ![t] = NoOut]
    /\ osm_in' = NoOsmResponse
    /\ UNCHANGED <<cfg, now, today, cache, request_counter, net, started>>

----------------------------------------------------------------------------
\* Specifications.

Begin(t) == HomeBegin(t) \/ ImagesBegin(t) \/ SearchBegin(t)

Step(t) ==
    \/ CacheGet(t)
    \/ CacheAge(t)
    \/ CachePop(t)
    \/ Request(t)
    \/ RecordDate(t)
    \/ DateTest(t)
    \/ ResetDate(t)
    \/ ResetCount(t)
    \/ RecordLoad(t)
    \/ RecordStore(t)
    \/ CacheTime(t)
    \/ CacheStore(t)
    \/ HomeCompose(t)
    \/ ImagesCompose(t)
    \/ HandlerExcept(t)
    \/ RenderEmpty(t)
    \/ SearchReturn(t)
    \/ SearchRaise(t)
    \/ Finish(t)

\* one call after the other: every call runs on the main thread
Next ==
    \/ Begin(MainThread)
    \/ Step(MainThread)
    \/ Tick
    \/ DayRollover

Spec == Init /\ [][Next]_vars

\* a threaded server: the calls of the two threads interleave
NextThreads ==
    \/ \E t \in Threads : Begin(t)
    \/ \E t \in Threads : Step(t)
    \/ Tick
    \/ DayRollover

SpecThreads == Init /\ [][NextThreads]_vars

\* osm_search alone, applied to every response of the provider
NextOsm ==
    \/ OsmLookup(MainThread)
    \/ OsmFinish(MainThread)

SpecOsm == Init /\ [][NextOsm]_vars

----------------------------------------------------------------------------
\* Properties.

Quiet(t) == pc[t] \in {"idle", "done"}
\* the thread is inside, or has finished, a call that reached google_search
SearchCalled(t) == pc[t] \notin {"idle", "render"} /\ L[t].q # "" /\ L[t].handler # "osm_search"
OkCalls == {i \in DOMAIN net : net[i].ok}
Between(x, lo, hi) == IF x < lo THEN lo ELSE IF x > hi THEN hi ELSE x

\* C1: after calls that were all made on the current calendar date, the
\* usage counter equals the number of upstream requests that got a successful
\* (2xx, readable) response; cache hits, configuration errors and failed
\* requests (non-2xx status, transport failure) add nothing.
C1_CounterCountsSuccessfulRequests ==
    (Quiet(MainThread) /\ \A i \in DOMAIN net : net[i].day = today)
        => request_counter.count = Cardinality(OkCalls)

\* C2: a call that found an entry at most 60 seconds old for its key returns
\* that entry's payload and issues no upstream request, whatever the payload.
C2_FreshEntryServedFromCache ==
    \A t \in Threads :
        (pc[t] \notin {"idle", "cache_get", "cache_age"} /\ L[t].fresh)
            => /\ L[t].hit
               /\ L[t].params = NoParams
               /\ L[t].data = L[t].item.payload

\* C3: when the provider answers the search with a non-2xx status, home and
\* images render no results, no boxes, and an error string "HTTP <status>..."
\* with at most 200 characters of the body.
C3_HttpErrorIsRendered ==
    \A t \in Threads :
        (pc[t] = "done" /\ L[t].handler \in {"home", "images"}
            /\ L[t].exc.type = "HTTPError")
            => /\ out[t].state = "rendered"
               /\ out[t].results = <<>>
               /\ ~out[t].wiki_box
               /\ ~out[t].osm_box
               /\ out[t].error.t = "str"
               /\ SubSeq(out[t].error.s, 1, 1) = <<"HTTP ">>
               /\ Len(out[t].error.s) <= 200 + 4

\* C4: in home, a failed encyclopedia fetch only omits the encyclopedia box:
\* no error, the results kept, place lookup and pagination still done.
C4_WikiFailureOnlyOmitsBox ==
    \A t \in Threads :
        (pc[t] = "done" /\ L[t].handler = "home" /\ out[t].wiki = "failed")
            => /\ out[t].state = "rendered"
               /\ out[t].error = NoneVal
               /\ out[t].results = Results(L[t].data)
               /\ ~out[t].wiki_box
               /\ out[t].osm.called
               /\ out[t].next_start = NextStart(L[t].data)
               /\ out[t].prev_start = PrevStart(L[t].data)

\* C5: _cache_get returns the stored payload exactly when the entry exists and
\* is at most 60 seconds old, and None otherwise; an older entry is gone from
\* the cache once _cache_get has returned; _cache_set stores the payload given.
C5_CacheGetSet ==
    \A t \in Threads :
        /\ (SearchCalled(t) /\ pc[t] \notin {"cache_get", "cache_age", "cache_pop"}
                /\ L[t].key # NoKey)
            => L[t].cached = IF L[t].item.present /\ L[t].fresh
                             THEN L[t].item.payload ELSE PyNone
        /\ (pc[t] = "request" /\ L[t].item.present /\ ~L[t].fresh)
            => L[t].key \notin DOMAIN cache
        /\ (pc[t] = "compose" /\ ~L[t].hit)
            => /\ L[t].key \in DOMAIN cache
               /\ cache[L[t].key].payload = L[t].data
               /\ cache[L[t].key].ts <= now

\* an entry older than 60 seconds was read and removed
C5_Witness ==
    \E t \in Threads :
        /\ pc[t] = "request"
        /\ L[t].item.present
        /\ now - L[t].item.ts > 60
        /\ L[t].key \notin DOMAIN cache

\* C6: when a successful request is recorded on a date other than the stored
\* one, the stored date becomes the current date and the count restarts from
\* zero before the increment, so it is 1 after the call; on the stored date
\* the count grows by one (two such calls give 2).
C6_CounterResetsOnNewDate ==
    [][LET t == MainThread IN
       /\ (pc[t] = "record_date" /\ pc'[t] = "date_test")
            => /\ L'[t].today = today
               /\ request_counter' = request_counter
       /\ (pc[t] = "date_test" /\ pc'[t] # "date_test")
            => /\ (pc'[t] = "reset_date") <=> (request_counter.date # L[t].today)
               /\ request_counter' = request_counter
       /\ (pc[t] = "reset_date" /\ pc'[t] = "reset_count")
            => request_counter'.date = L[t].today
       /\ (pc[t] = "reset_count" /\ pc'[t] = "record_load")
            => request_counter' = [date |-> L[t].today, count |-> 0]
       /\ (pc[t] = "record_store" /\ pc'[t] = "cache_time")
            => /\ request_counter'.count = request_counter.count + 1
               /\ request_counter'.date = L[t].today
               /\ L[t].reset => request_counter'.count = 1
      ]_vars

\* the second counted request came after a change of date: the count is 1
C6_Witness ==
    /\ pc[MainThread] = "cache_time"
    /\ Cardinality(OkCalls) = 2
    /\ net[1].day # net[2].day
    /\ L[MainThread].reset
    /\ request_counter.date = net[2].day
    /\ request_counter.count = 1

\* C7 as stated: with any of API_KEY, CX, MAIL absent every search call fails
\* with the configuration error and leaves cache and counter alone.
C7_AnyMissingValueFailsSearch ==
    \A t \in Threads :
        ((~cfg.API_KEY \/ ~cfg.CX \/ ~cfg.MAIL) /\ SearchCalled(t)
            /\ pc[t] = "done")
            => /\ L[t].exc.type = "RuntimeError"
               /\ cache = EmptyDict
               /\ request_counter.count = 0
               /\ net = <<>>

\* C7 amended: with API_KEY or CX absent every search call fails with the
\* configuration error before the cache is read, and cache, counter and
\* upstream stay untouched.
C7_MissingCredentialFailsSearch ==
    \A t \in Threads :
        ((~cfg.API_KEY \/ ~cfg.CX) /\ SearchCalled(t))
            => /\ L[t].exc.type = "RuntimeError"
               /\ pc[t] \in {"except", "done"}
               /\ L[t].item = NoItem
               /\ cache = EmptyDict
               /\ request_counter = [date |-> 0, count |-> 0]
               /\ net = <<>>
               /\ (pc[t] = "done" /\ L[t].handler \in {"home", "images"})
                    => out[t].error = PyStr(ConfigErrorText)

\* the engine id alone is absent and home rendered the configuration error
C7_Witness ==
    \E t \in Threads :
        /\ cfg.API_KEY /\ ~cfg.CX /\ cfg.MAIL
        /\ pc[t] = "done"
        /\ L[t].handler = "home"
        /\ out[t].state = "rendered"
        /\ out[t].error = PyStr(ConfigErrorText)

\* the first candidate passes the filter of the claim
Relevant(r) ==
    /\ r.conn /\ r.status = 200 /\ r.parses
    /\ r.data # <<>>
    /\ r.data[1].class \in {"place", "boundary", "building", "amenity", "tourism",
                            "highway", "shop", "leisure", "natural", "historic"}
    /\ r.data[1].imp = "num"
    /\ r.data[1].tenths >= 3

\* C8: osm_search returns the first candidate exactly when it passes the class
\* and importance filter, and otherwise returns None; it never raises.
C8_OsmSearchFiltersAndNeverRaises ==
    \A t \in Threads :
        (pc[t] = "done" /\ L[t].handler = "osm_search")
            => /\ ~out[t].osm.raised
               /\ out[t].osm.found <=> Relevant(osm_in)

\* C9: the cache key and the upstream request carry start_index clamped to
\* [1, 91] and num clamped to [1, 10].
C9_ClampedKeyAndRequest ==
    \A t \in Threads :
        /\ (SearchCalled(t) /\ L[t].exc.type # "RuntimeError")
            => /\ L[t].key.start = Between(L[t].start_arg, 1, 91)
               /\ L[t].key.qn = <<L[t].q, "|", Between(L[t].num_arg, 1, 10)>>
        /\ L[t].params # NoParams
            => /\ L[t].params.start = Between(L[t].start_arg, 1, 91)
               /\ L[t].params.num = Between(L[t].num_arg, 1, 10)

\* google_search(start_index=0, num=50) was served from the entry that a call
\* with start 1 and num 10 had stored
C9_Witness ==
    \E t \in Threads :
        /\ pc[t] = "done"
        /\ L[t].handler = "search"
        /\ L[t].start_arg = 0
        /\ L[t].num_arg = 50
        /\ L[t].hit
        /\ L[t].key.start = 1

\* C10, the sequential half: calls made one after the other never send an
\* upstream request for a key whose stored entry is at most 60 seconds old.
C10_OneUpstreamCallPerWindow ==
    \A i \in DOMAIN net : ~net[i].dup

\* C10, the concurrent half: both threads missed the cache for one key and
\* both have sent their request
C10_BothThreadsRequested ==
    \E t, u \in Threads :
        /\ t # u
        /\ L[t].key = L[u].key
        /\ L[t].key # NoKey
        /\ ~L[t].item.present /\ ~L[u].item.present
        /\ L[t].params # NoParams /\ L[u].params # NoParams
        /\ Quiet(t) /\ Quiet(u)
        /\ Len(net) = 2 /\ net[1].ok /\ net[2].ok
====
